---- MODULE Spec2Model ----
(***************************************************************************)
(* State-machine model of the scan sequencer of tomoscan_prisma.py:        *)
(* TomoScanPrisma.fly_scan with begin_scan, collect_dark_fields,           *)
(* collect_flat_fields, collect_projections, set_trigger_mode and          *)
(* end_scan.  The object `ts` holds the fields of the TomoScanPrisma       *)
(* instance, `pv` the process variables it reads and writes, `pc` the      *)
(* position of the single thread of control and `stack` the return         *)
(* positions of the calls in progress.                                     *)
(***************************************************************************)
EXTENDS Integers, Sequences, FiniteSets, TLC

\* ------------------------------------------------------------------ bounds
\* Largest NumDarkFields / NumFlatFields configured.
MaxFields == 1
\* The RotationEnd angle of the configurations explored (RotationStep is 1).
MaxAngle == 1
\* Largest PostScanStep configured (0 is included).
MaxStep == 2
\* Largest num_images passed to a stand-alone set_trigger_mode call.
MaxImages == 2

\* --------------------------------------------------------------- constants
Modes == {"None", "Start", "End", "Both"}
Recoverable == {"ScanAbortError", "CameraTimeoutError", "FileOverwriteError"}
Unanticipated == {"RuntimeError"}
PhaseOrder == <<"DarkStart", "FlatStart", "Projection", "PostScan", "FlatEnd", "DarkEnd">>

VARIABLES
    pv,          \* epics_pvs / control_pvs / frametype: name -> value
    ts,          \* the fields of the TomoScanPrisma object
    pc,          \* position of the thread of control
    stack,       \* return positions of the calls in progress
    k,           \* loop index of collect_projections
    trig,        \* arguments of the set_trigger_mode call in progress
    nframes,     \* argument of the static-frame collection in progress
    exc,         \* exception in flight (or "none")
    cond,        \* first exception raised inside the try block of this run
    errlog,      \* messages written with log.error
    propagated,  \* exception that left fly_scan (or "none")
    phases,      \* phase-entry events of this run
    endCalls,    \* number of end_scan calls since construction
    exposures,   \* frames exposed in this run
    lastRot,     \* last rotation command: [val, site]
    lastExp,     \* last exposure: [phase, tag, imode, rot]
    projLog,     \* commands of the collect_projections call in progress
    trigLog,     \* commands of the set_trigger_mode call in progress
    cancelK,     \* loop index at which scan_is_running became false (-1: none)
    sawFalse,    \* a loop check of this run has read scan_is_running = False
    cancelled,   \* the operator has aborted this run
    snap         \* pv when the first of two set_trigger_mode calls returned

vars == <<pv, ts, pc, stack, k, trig, nframes, exc, cond, errlog, propagated,
          phases, endCalls, exposures, lastRot, lastExp, projLog, trigLog,
          cancelK, sawFalse, cancelled, snap>>

hist == <<phases, endCalls, exposures, lastRot, lastExp, projLog, trigLog,
          cancelK, sawFalse, cancelled>>
errs == <<exc, cond, errlog, propagated>>

\* ----------------------------------------------------------------- helpers
\* Python int(): truncation toward zero of n/d, d # 0.
Abs(n) == IF n < 0 THEN -n ELSE n
Trunc(n, d) == IF (n >= 0) = (d > 0) THEN Abs(n) \div Abs(d) ELSE -(Abs(n) \div Abs(d))

\* int(((stop - start) / step) + 1)
NumSteps(start, stop, step) == Trunc((stop - start) + step, step)

\* start + np.arange(n) * step   (empty when n <= 0)
Arange(start, n, step) == [i \in 1..n |-> start + (i - 1) * step]

\* Index of a trigger-mode choice in the camera's enum; wait_pv compares the
\* numeric value of the PV.
TriggerIndex(m) == CASE m = "Internal" -> 0
                     [] m = "External" -> 1
                     [] OTHER -> 2

Push(ret) == <<ret>> \o stack
Top == Head(stack)
Pop == Tail(stack)

CurrentPhase == IF phases = <<>> THEN "none" ELSE phases[Len(phases)]

\* ------------------------------------------------------------------- Init
NoExp == [phase |-> "none", tag |-> "none", imode |-> "none", site |-> "none", rot |-> 0]

InitObject ==
    [scan_is_running |-> FALSE,
     rotation_start |-> 0, rotation_step |-> 1, rotation_stop |-> 0,
     num_angles |-> 0, theta |-> <<>>,
     post_scan_mode |-> "No", post_scan_step |-> 1, num_post_scan |-> 0,
     dark_field_mode |-> "None", flat_field_mode |-> "None",
     num_dark_fields |-> 0, num_flat_fields |-> 0,
     total_images |-> 0]

InitHistory ==
    /\ exc = "none" /\ cond = "none" /\ errlog = <<>> /\ propagated = "none"
    /\ phases = <<>> /\ endCalls = 0 /\ exposures = 0
    /\ lastRot = [val |-> 0, site |-> "none"]
    /\ lastExp = NoExp
    /\ projLog = <<>> /\ trigLog = <<>>
    /\ cancelK = -1 /\ sawFalse = FALSE /\ cancelled = FALSE
    /\ snap = <<>>

\* The state when fly_scan is called on a freshly constructed object: the
\* configuration PVs hold what the operator entered, the devices are idle.
Init ==
    /\ \E dm \in Modes, fm \in Modes, nd \in 0..MaxFields, nf \in 0..MaxFields,
          ps \in {"Yes", "No"}, rs \in 0..1, pstep \in 0..MaxStep :
          pv = [DarkFieldMode |-> dm, FlatFieldMode |-> fm,
                NumDarkFields |-> nd, NumFlatFields |-> nf,
                RotationStart |-> rs, RotationStep |-> 1, RotationEnd |-> MaxAngle,
                AcquirePostScan |-> ps, PostScanStep |-> pstep,
                Rotation |-> 0, CamAcquire |-> 0, CamTriggerMode |-> "Internal",
                CamNumImages |-> 1, CamImageMode |-> "Single", FrameType |-> "0",
                FPNumCapture |-> 0, FPCapture |-> "Done"]
    /\ ts = InitObject
    /\ pc = "begin_scan" /\ stack = <<>>
    /\ k = 0 /\ trig = [mode |-> "Internal", num |-> 0] /\ nframes = 0
    /\ InitHistory

\* ------------------------------------------------- exceptions and cleanup
\* The positions inside the try block of fly_scan.
Cleanup == {"except", "finally", "done"}
InTry == pc \notin Cleanup

\* Faulty variant of Raise: the exception is noted where it occurs and the
\* sequence carries on from there.
RaiseNoUnwind(e) ==
    /\ exc' = e
    /\ cond' = e
    /\ pc' = IF pc = "begin_scan" THEN "dark_start" ELSE pc
    /\ stack' = stack
    /\ UNCHANGED <<errlog, propagated>>

\* raise e inside the try block: control leaves every call in progress and
\* reaches the except clauses of fly_scan.
Raise(e) ==
    /\ exc' = e
    /\ cond' = e
    /\ pc' = "except"
    /\ stack' = <<>>
    /\ UNCHANGED <<errlog, propagated>>

\* The calls into the base classes and the device layer that can raise.
FaultPoints == {"begin_scan", "fp_num_capture", "fp_capture", "rot_start",
                "projections", "static_wait", "proj_base", "trig_wait_stop",
                "trig_wait_mode", "loop_acquire"}

\* A call made inside the try block raises a recoverable condition or an
\* unanticipated error.
Fault ==
    /\ UNCHANGED snap
    /\ pc \in FaultPoints
    /\ \E e \in Recoverable \cup Unanticipated : Raise(e)
    /\ UNCHANGED <<pv, ts, k, trig, nframes, hist>>

\* Faulty variant of Except: the cleanup is reached only from the three
\* except clauses, so an exception none of them names leaves fly_scan at once.
ExceptNoFinally ==
    /\ UNCHANGED snap
    /\ pc = "except"
    /\ pc' = IF exc \in Recoverable THEN "finally" ELSE "done"
    /\ propagated' = IF exc \in Recoverable THEN propagated ELSE exc
    /\ stack' = stack
    /\ errlog' = errlog /\ exc' = IF exc \in Recoverable THEN "none" ELSE exc
    /\ UNCHANGED <<pv, ts, k, trig, nframes, cond, hist>>

\* except ScanAbortError / CameraTimeoutError / FileOverwriteError: an
\* exception no clause names passes through to finally.
Except ==
    /\ UNCHANGED snap
    /\ pc = "except"
    /\ CASE exc = "ScanAbortError" ->
              \* log.error('Scan aborted'); super().ScanAbortError(): the base
              \* classes have no attribute of that name
              /\ errlog' = Append(errlog, "Scan aborted")
              /\ exc' = "AttributeError"
         [] exc = "CameraTimeoutError" ->
              /\ errlog' = Append(errlog, "Camera timeout")
              /\ exc' = "none"
         [] exc = "FileOverwriteError" ->
              /\ errlog' = Append(errlog, "File overwrite aborted")
              /\ exc' = "none"
         [] OTHER ->
              UNCHANGED <<errlog, exc>>
    /\ pc' = "finally"
    /\ UNCHANGED <<pv, ts, stack, k, trig, nframes, cond, propagated, hist>>

\* TomoScan.end_scan, reached through TomoScanSTEP.end_scan: returns the
\* rotation stage to rotation_start when ReturnRotation is 'Yes' and clears
\* the cancellation flag.
TomoScan_end_scan(t) == [t EXCEPT !.scan_is_running = FALSE]

\* finally: self.end_scan(); then fly_scan returns or the exception in
\* flight leaves it.
Finally ==
    /\ UNCHANGED snap
    /\ pc = "finally"
    /\ endCalls' = endCalls + 1
    /\ ts' = TomoScan_end_scan(ts)
    /\ \E ret \in {"Yes", "No"} :
          IF ret = "Yes"
          THEN /\ pv' = [pv EXCEPT !.Rotation = ts.rotation_start]
               /\ lastRot' = [val |-> ts.rotation_start, site |-> "end_scan"]
          ELSE UNCHANGED <<pv, lastRot>>
    /\ propagated' = exc
    /\ exc' = "none"
    /\ pc' = "done"
    /\ UNCHANGED <<stack, k, trig, nframes, cond, errlog, phases, exposures,
                   lastExp, projLog, trigLog, cancelK, sawFalse, cancelled>>

\* ------------------------------------------------------------- begin_scan
\* TomoScan.begin_scan: marks the run as running and copies the scan
\* configuration from the PVs into the object.
TomoScan_begin_scan(t) ==
    [t EXCEPT !.scan_is_running = TRUE,
              !.rotation_start = pv.RotationStart,
              !.rotation_step = pv.RotationStep,
              !.dark_field_mode = pv.DarkFieldMode,
              !.flat_field_mode = pv.FlatFieldMode,
              !.num_dark_fields = pv.NumDarkFields,
              !.num_flat_fields = pv.NumFlatFields]

\* Faulty variant of TotalImages: mode 'Both' counted once.
TotalImagesOnce(t) ==
    LET a == t.num_angles
        b == IF t.dark_field_mode # "None" THEN a + t.num_dark_fields ELSE a
        d == IF t.flat_field_mode # "None" THEN b + t.num_flat_fields ELSE b
        f == IF t.post_scan_mode = "Yes" THEN d + t.num_post_scan ELSE d
    IN f

\* The accumulation of total_images in begin_scan (lines 75-85).
TotalImages(t) ==
    LET a == t.num_angles
        b == IF t.dark_field_mode # "None" THEN a + t.num_dark_fields ELSE a
        c == IF t.dark_field_mode = "Both" THEN b + t.num_dark_fields ELSE b
        d == IF t.flat_field_mode # "None" THEN c + t.num_flat_fields ELSE c
        e == IF t.flat_field_mode = "Both" THEN d + t.num_flat_fields ELSE d
        f == IF t.post_scan_mode = "Yes" THEN e + t.num_post_scan ELSE e
    IN f

\* Faulty variant of ScanPlan: the angle count and the angle list are
\* computed on the first run only and kept afterwards.
ScanPlanStale(t) ==
    LET t1 == [t EXCEPT !.rotation_stop = pv.RotationEnd]
        t2 == [t1 EXCEPT !.num_angles =
                   IF t1.theta = <<>>
                   THEN NumSteps(t1.rotation_start, t1.rotation_stop, t1.rotation_step)
                   ELSE t1.num_angles,
                         !.post_scan_mode = pv.AcquirePostScan,
                         !.post_scan_step = pv.PostScanStep]
        t3 == [t2 EXCEPT !.num_post_scan =
                   NumSteps(t2.rotation_start, t2.rotation_stop, t2.post_scan_step)]
        t4 == [t3 EXCEPT !.theta =
                   IF t3.theta = <<>>
                   THEN Arange(t3.rotation_start, t3.num_angles, t3.rotation_step)
                   ELSE t3.theta]
    IN [t4 EXCEPT !.total_images = TotalImages(t4)]

\* The scan plan computed by TomoScanPrisma.begin_scan after the base call;
\* defined when neither step is 0.
ScanPlan(t) ==
    LET t1 == [t EXCEPT !.rotation_stop = pv.RotationEnd]
        t2 == [t1 EXCEPT !.num_angles =
                   NumSteps(t1.rotation_start, t1.rotation_stop, t1.rotation_step),
                         !.post_scan_mode = pv.AcquirePostScan,
                         !.post_scan_step = pv.PostScanStep]
        t3 == [t2 EXCEPT !.num_post_scan =
                   NumSteps(t2.rotation_start, t2.rotation_stop, t2.post_scan_step)]
        t4 == [t3 EXCEPT !.theta =
                   Arange(t3.rotation_start, t3.num_angles, t3.rotation_step)]
    IN [t4 EXCEPT !.total_images = TotalImages(t4)]

\* Lines 67-86: the base begin_scan and the plan; nothing is written to a
\* PV before line 87.
begin_scan ==
    /\ UNCHANGED snap
    /\ pc = "begin_scan"
    /\ LET t0 == TomoScan_begin_scan(ts)
       IN IF t0.rotation_step = 0
          THEN \* line 69 divides by rotation_step
               /\ ts' = [t0 EXCEPT !.rotation_stop = pv.RotationEnd]
               /\ Raise("ZeroDivisionError")
               /\ UNCHANGED pv
          ELSE IF pv.PostScanStep = 0
          THEN \* line 72 divides by post_scan_step
               /\ ts' = [t0 EXCEPT !.rotation_stop = pv.RotationEnd,
                                   !.num_angles = NumSteps(t0.rotation_start,
                                                   pv.RotationEnd, t0.rotation_step),
                                   !.post_scan_mode = pv.AcquirePostScan,
                                   !.post_scan_step = pv.PostScanStep]
               /\ Raise("ZeroDivisionError")
               /\ UNCHANGED pv
          ELSE /\ ts' = ScanPlan(t0)
               /\ pc' = "fp_num_capture"
               /\ UNCHANGED <<pv, stack, errs>>
    /\ UNCHANGED <<k, trig, nframes, hist>>

\* Line 87: the file plugin is told the number of images; the put blocks
\* until the plugin has taken the value, so an abort can arrive before
\* line 88 runs.
begin_scan_num_capture ==
    /\ UNCHANGED snap
    /\ pc = "fp_num_capture"
    /\ pv' = [pv EXCEPT !.FPNumCapture = ts.total_images]
    /\ pc' = "fp_capture"
    /\ UNCHANGED <<ts, stack, k, trig, nframes, errs, hist>>

\* Line 88: the file plugin starts capturing and begin_scan returns.
begin_scan_capture ==
    /\ UNCHANGED snap
    /\ pc = "fp_capture"
    /\ pv' = [pv EXCEPT !.FPCapture = "Capture"]
    /\ pc' = "dark_start"
    /\ UNCHANGED <<ts, stack, k, trig, nframes, errs, hist>>

\* --------------------------------------------------------------- devices
\* The camera takes one frame per Acquire in image mode Single and
\* CamNumImages frames in image mode Multiple.
Frames == IF pv.CamImageMode = "Multiple" THEN pv.CamNumImages ELSE 1

\* An exposure command: records the frames taken and the frame tag, image
\* mode and rotation command in force when it is issued.
Expose ==
    /\ exposures' = exposures + Frames
    /\ lastExp' = [phase |-> CurrentPhase, tag |-> pv.FrameType,
                   imode |-> pv.CamImageMode, site |-> lastRot.site,
                   rot |-> pv.Rotation]

\* epics_pvs['Rotation'].put(angle, wait=True) issued at `site`.
Rotated(angle) == [pv EXCEPT !.Rotation = angle]

\* -------------------------------------------------------- set_trigger_mode
\* line 262: CamAcquire.put('Done')
trig_stop ==
    /\ UNCHANGED snap
    /\ pc = "trig_stop"
    /\ pv' = [pv EXCEPT !.CamAcquire = 0]
    /\ trigLog' = Append(trigLog, "stop")
    /\ pc' = "trig_wait_stop"
    /\ UNCHANGED <<ts, stack, k, trig, nframes, errs, phases, endCalls, exposures,
                   lastRot, lastExp, projLog, cancelK, sawFalse, cancelled>>

\* line 263: wait_pv(CamAcquire, 0) returns once the PV reads 0
trig_wait_stop ==
    /\ UNCHANGED snap
    /\ pc = "trig_wait_stop"
    /\ pv.CamAcquire = 0
    /\ trigLog' = Append(trigLog, "stop_confirmed")
    /\ pc' = "trig_mode"
    /\ UNCHANGED <<pv, ts, stack, k, trig, nframes, errs, phases, endCalls, exposures,
                   lastRot, lastExp, projLog, cancelK, sawFalse, cancelled>>

\* The value written to CamTriggerMode for a requested mode (lines 265-268).
TriggerModeFor(mode) == IF mode = "FreeRun" THEN "Internal" ELSE mode

\* Faulty variant of trig_mode: the image count follows the mode command
\* without the confirmation wait.
trig_mode_nowait ==
    /\ UNCHANGED snap
    /\ pc = "trig_mode"
    /\ pv' = [pv EXCEPT !.CamTriggerMode = TriggerModeFor(trig.mode)]
    /\ trigLog' = Append(trigLog, "mode")
    /\ pc' = "trig_count"
    /\ UNCHANGED <<ts, stack, k, trig, nframes, errs, phases, endCalls, exposures,
                   lastRot, lastExp, projLog, cancelK, sawFalse, cancelled>>

\* lines 264-268: CamTriggerMode.put(..., wait=True)
trig_mode ==
    /\ UNCHANGED snap
    /\ pc = "trig_mode"
    /\ pv' = [pv EXCEPT !.CamTriggerMode = TriggerModeFor(trig.mode)]
    /\ trigLog' = Append(trigLog, "mode")
    /\ pc' = "trig_wait_mode"
    /\ UNCHANGED <<ts, stack, k, trig, nframes, errs, phases, endCalls, exposures,
                   lastRot, lastExp, projLog, cancelK, sawFalse, cancelled>>

\* line 269: wait_pv(CamTriggerMode, 0) returns once the PV reads 0
trig_wait_mode ==
    /\ UNCHANGED snap
    /\ pc = "trig_wait_mode"
    /\ TriggerIndex(pv.CamTriggerMode) = 0
    /\ trigLog' = Append(trigLog, "mode_confirmed")
    /\ pc' = "trig_count"
    /\ UNCHANGED <<pv, ts, stack, k, trig, nframes, errs, phases, endCalls, exposures,
                   lastRot, lastExp, projLog, cancelK, sawFalse, cancelled>>

\* Faulty variant of trig_count: the image count is added to the one the
\* camera holds.
trig_count_add ==
    /\ UNCHANGED snap
    /\ pc = "trig_count"
    /\ pv' = [pv EXCEPT !.CamNumImages = pv.CamNumImages + trig.num]
    /\ trigLog' = Append(trigLog, "count")
    /\ pc' = Top
    /\ stack' = Pop
    /\ UNCHANGED <<ts, k, trig, nframes, errs, phases, endCalls, exposures,
                   lastRot, lastExp, projLog, cancelK, sawFalse, cancelled>>

\* line 270: CamNumImages.put(num_images, wait=True); return
trig_count ==
    /\ UNCHANGED snap
    /\ pc = "trig_count"
    /\ pv' = [pv EXCEPT !.CamNumImages = trig.num]
    /\ trigLog' = Append(trigLog, "count")
    /\ pc' = Top
    /\ stack' = Pop
    /\ UNCHANGED <<ts, k, trig, nframes, errs, phases, endCalls, exposures,
                   lastRot, lastExp, projLog, cancelK, sawFalse, cancelled>>

\* A call set_trigger_mode(mode, num) that returns to `ret`.
CallTrigger(mode, num, ret) ==
    /\ trig' = [mode |-> mode, num |-> num]
    /\ trigLog' = <<>>
    /\ stack' = Push(ret)
    /\ pc' = "trig_stop"

\* ------------------------------------------------- dark and flat fields
\* Faulty variant of collect_dark_fields: the frame type is left as it was.
collect_dark_fields_untagged ==
    /\ UNCHANGED snap
    /\ pc = "collect_dark_fields"
    /\ pv' = [pv EXCEPT !.CamImageMode = "Multiple"]
    /\ nframes' = ts.num_dark_fields
    /\ pc' = "static_frames"
    /\ UNCHANGED <<ts, stack, k, trig, errs, hist>>

\* lines 181-183
collect_dark_fields ==
    /\ UNCHANGED snap
    /\ pc = "collect_dark_fields"
    /\ pv' = [pv EXCEPT !.CamImageMode = "Multiple", !.FrameType = "1"]
    /\ nframes' = ts.num_dark_fields
    /\ pc' = "static_frames"
    /\ UNCHANGED <<ts, stack, k, trig, errs, hist>>

\* lines 213-215
collect_flat_fields ==
    /\ UNCHANGED snap
    /\ pc = "collect_flat_fields"
    /\ pv' = [pv EXCEPT !.CamImageMode = "Multiple", !.FrameType = "2"]
    /\ nframes' = ts.num_flat_fields
    /\ pc' = "static_frames"
    /\ UNCHANGED <<ts, stack, k, trig, errs, hist>>

\* The base collection of nframes static frames: arm the camera for the
\* batch, start it, wait until the camera is done.
static_frames ==
    /\ UNCHANGED snap
    /\ pc = "static_frames"
    /\ CallTrigger("Internal", nframes, "static_acquire")
    /\ UNCHANGED <<pv, ts, k, nframes, errs, phases, endCalls, exposures,
                   lastRot, lastExp, projLog, cancelK, sawFalse, cancelled>>

static_acquire ==
    /\ UNCHANGED snap
    /\ pc = "static_acquire"
    /\ Expose
    /\ pv' = [pv EXCEPT !.CamAcquire = 1]
    /\ pc' = "static_wait"
    /\ UNCHANGED <<ts, stack, k, trig, nframes, errs, phases, endCalls,
                   lastRot, projLog, trigLog, cancelK, sawFalse, cancelled>>

static_wait ==
    /\ UNCHANGED snap
    /\ pc = "static_wait"
    /\ pv' = [pv EXCEPT !.CamAcquire = 0]
    /\ pc' = Top
    /\ stack' = Pop
    /\ UNCHANGED <<ts, k, trig, nframes, errs, hist>>

\* ---------------------------------------------------- collect_projections
\* lines 230-231: the base call, then set_trigger_mode("Internal", num_angles)
proj_base ==
    /\ UNCHANGED snap
    /\ pc = "proj_base"
    /\ CallTrigger("Internal", ts.num_angles, "proj_imode")
    /\ projLog' = <<>>
    /\ UNCHANGED <<pv, ts, k, nframes, errs, phases, endCalls, exposures,
                   lastRot, lastExp, cancelK, sawFalse, cancelled>>

\* lines 232-235
proj_imode ==
    /\ UNCHANGED snap
    /\ pc = "proj_imode"
    /\ pv' = [pv EXCEPT !.CamImageMode = "Single"]
    /\ k' = 0
    /\ pc' = "loop_check"
    /\ UNCHANGED <<ts, stack, trig, nframes, errs, hist>>

\* Faulty variant of LoopGuard: the flag is not consulted.
LoopGuardAlways(t) == TRUE

\* The test of line 237.
LoopGuard(t) == t.scan_is_running

\* lines 236-237: for k in range(num_angles): if scan_is_running
loop_check ==
    /\ UNCHANGED snap
    /\ pc = "loop_check"
    /\ IF k < ts.num_angles
       THEN IF LoopGuard(ts)
            THEN /\ pc' = "loop_rotate"
                 /\ UNCHANGED <<k, sawFalse>>
            ELSE /\ k' = k + 1
                 /\ sawFalse' = TRUE
                 /\ pc' = "loop_check"
       ELSE /\ pc' = "proj_final"
            /\ UNCHANGED <<k, sawFalse>>
    /\ UNCHANGED <<pv, ts, stack, trig, nframes, errs, phases, endCalls, exposures,
                   lastRot, lastExp, projLog, trigLog, cancelK, cancelled>>

\* lines 238-239: Rotation.put(theta[k], wait=True)
loop_rotate ==
    /\ UNCHANGED snap
    /\ pc = "loop_rotate"
    /\ pv' = Rotated(ts.theta[k + 1])
    /\ lastRot' = [val |-> ts.theta[k + 1], site |-> "loop"]
    /\ projLog' = Append(projLog, <<"rot", k>>)
    /\ pc' = "loop_acquire"
    /\ UNCHANGED <<ts, stack, k, trig, nframes, errs, phases, endCalls, exposures,
                   lastExp, trigLog, cancelK, sawFalse, cancelled>>

\* lines 240-241: CamAcquire.put('Acquire', wait=True)
loop_acquire ==
    /\ UNCHANGED snap
    /\ pc = "loop_acquire"
    /\ Expose
    /\ projLog' = Append(projLog, <<"exp", k>>)
    /\ pc' = "loop_status"
    /\ UNCHANGED <<pv, ts, stack, k, trig, nframes, errs, phases, endCalls,
                   lastRot, trigLog, cancelK, sawFalse, cancelled>>

\* Faulty variant of loop_status: the index advances without the status
\* update.
loop_status_silent ==
    /\ UNCHANGED snap
    /\ pc = "loop_status"
    /\ k' = k + 1
    /\ pc' = "loop_check"
    /\ UNCHANGED <<pv, ts, stack, trig, nframes, errs, phases, endCalls, exposures,
                   lastRot, lastExp, projLog, trigLog, cancelK, sawFalse, cancelled>>

\* line 243: update_status(start_time); next k
loop_status ==
    /\ UNCHANGED snap
    /\ pc = "loop_status"
    /\ projLog' = Append(projLog, <<"status", k>>)
    /\ k' = k + 1
    /\ pc' = "loop_check"
    /\ UNCHANGED <<pv, ts, stack, trig, nframes, errs, phases, endCalls, exposures,
                   lastRot, lastExp, trigLog, cancelK, sawFalse, cancelled>>

\* Faulty variant of proj_final: the call returns without the trailing
\* status update.
proj_final_silent ==
    /\ UNCHANGED snap
    /\ pc = "proj_final"
    /\ pc' = Top
    /\ stack' = Pop
    /\ UNCHANGED <<pv, ts, k, trig, nframes, errs, phases, endCalls, exposures,
                   lastRot, lastExp, projLog, trigLog, cancelK, sawFalse, cancelled>>

\* lines 246-247: the trailing update_status; return
proj_final ==
    /\ UNCHANGED snap
    /\ pc = "proj_final"
    /\ projLog' = Append(projLog, <<"final", k>>)
    /\ pc' = Top
    /\ stack' = Pop
    /\ UNCHANGED <<pv, ts, k, trig, nframes, errs, phases, endCalls, exposures,
                   lastRot, lastExp, trigLog, cancelK, sawFalse, cancelled>>

\* ---------------------------------------------------------------- fly_scan
\* Faulty variant of LeadingEnabled: the field count is not looked at.
LeadingByModeOnly(n, mode) == mode \in {"Start", "Both"}

\* The tests of lines 136 and 139.
LeadingEnabled(n, mode) == n > 0 /\ mode \in {"Start", "Both"}

\* Faulty variant of TrailingEnabled: the leading test repeated.
TrailingAsLeading(n, mode) == n > 0 /\ mode \in {"Start", "Both"}

\* The tests of lines 157 and 162.
TrailingEnabled(n, mode) == n > 0 /\ mode \in {"End", "Both"}

\* The test of line 149.
PostScanEnabled(t) == t.num_post_scan > 0 /\ t.post_scan_mode = "Yes"

\* lines 136-137
fly_dark_start ==
    /\ UNCHANGED snap
    /\ pc = "dark_start"
    /\ IF LeadingEnabled(ts.num_dark_fields, ts.dark_field_mode)
       THEN /\ phases' = Append(phases, "DarkStart")
            /\ stack' = Push("flat_start")
            /\ pc' = "collect_dark_fields"
       ELSE /\ pc' = "flat_start"
            /\ UNCHANGED <<phases, stack>>
    /\ UNCHANGED <<pv, ts, k, trig, nframes, errs, endCalls, exposures,
                   lastRot, lastExp, projLog, trigLog, cancelK, sawFalse, cancelled>>

\* lines 139-142
fly_flat_start ==
    /\ UNCHANGED snap
    /\ pc = "flat_start"
    /\ IF LeadingEnabled(ts.num_flat_fields, ts.flat_field_mode)
       THEN /\ pv' = Rotated(0)
            /\ lastRot' = [val |-> 0, site |-> "flat_start"]
            /\ phases' = Append(phases, "FlatStart")
            /\ stack' = Push("rot_start")
            /\ pc' = "collect_flat_fields"
       ELSE /\ pc' = "rot_start"
            /\ UNCHANGED <<pv, lastRot, phases, stack>>
    /\ UNCHANGED <<ts, k, trig, nframes, errs, endCalls, exposures,
                   lastExp, projLog, trigLog, cancelK, sawFalse, cancelled>>

\* line 144: the stage is sent to rotation_start; the put blocks until the
\* move is over, so an abort can arrive before the frame tag is written.
fly_rotation_start ==
    /\ UNCHANGED snap
    /\ pc = "rot_start"
    /\ pv' = [pv EXCEPT !.Rotation = ts.rotation_start]
    /\ lastRot' = [val |-> ts.rotation_start, site |-> "rot_start"]
    /\ pc' = "projections"
    /\ UNCHANGED <<ts, stack, k, trig, nframes, errs, phases, endCalls,
                   exposures, lastExp, projLog, trigLog, cancelK, sawFalse,
                   cancelled>>

\* lines 146-147
fly_projections ==
    /\ UNCHANGED snap
    /\ pc = "projections"
    /\ pv' = [pv EXCEPT !.FrameType = "0"]
    /\ phases' = Append(phases, "Projection")
    /\ stack' = Push("post_scan")
    /\ pc' = "proj_base"
    /\ UNCHANGED <<ts, k, trig, nframes, errs, endCalls, exposures, lastRot,
                   lastExp, projLog, trigLog, cancelK, sawFalse, cancelled>>

\* Faulty variant of PostScanPlan: num_angles keeps the main count.
PostScanPlanKeepCount(t) ==
    LET t1 == [t EXCEPT !.rotation_step = t.post_scan_step]
    IN [t1 EXCEPT !.theta = Arange(t1.rotation_start, t1.num_angles, t1.rotation_step)]

\* lines 152-154: the post-scan plan replaces the main plan in the object.
PostScanPlan(t) ==
    LET t1 == [t EXCEPT !.num_angles = t.num_post_scan,
                        !.rotation_step = t.post_scan_step]
    IN [t1 EXCEPT !.theta = Arange(t1.rotation_start, t1.num_angles, t1.rotation_step)]

\* lines 149-155
fly_post_scan ==
    /\ UNCHANGED snap
    /\ pc = "post_scan"
    /\ IF PostScanEnabled(ts)
       THEN /\ pv' = [pv EXCEPT !.FrameType = "3"]
            /\ ts' = PostScanPlan(ts)
            /\ phases' = Append(phases, "PostScan")
            /\ stack' = Push("flat_end")
            /\ pc' = "proj_base"
       ELSE /\ pc' = "flat_end"
            /\ UNCHANGED <<pv, ts, phases, stack>>
    /\ UNCHANGED <<k, trig, nframes, errs, endCalls, exposures,
                   lastRot, lastExp, projLog, trigLog, cancelK, sawFalse, cancelled>>

\* lines 157-160
fly_flat_end ==
    /\ UNCHANGED snap
    /\ pc = "flat_end"
    /\ IF TrailingEnabled(ts.num_flat_fields, ts.flat_field_mode)
       THEN /\ pv' = Rotated(0)
            /\ lastRot' = [val |-> 0, site |-> "flat_end"]
            /\ phases' = Append(phases, "FlatEnd")
            /\ stack' = Push("dark_end")
            /\ pc' = "collect_flat_fields"
       ELSE /\ pc' = "dark_end"
            /\ UNCHANGED <<pv, lastRot, phases, stack>>
    /\ UNCHANGED <<ts, k, trig, nframes, errs, endCalls, exposures,
                   lastExp, projLog, trigLog, cancelK, sawFalse, cancelled>>

\* lines 162-163; the try block ends and control reaches finally
fly_dark_end ==
    /\ UNCHANGED snap
    /\ pc = "dark_end"
    /\ IF TrailingEnabled(ts.num_dark_fields, ts.dark_field_mode)
       THEN /\ phases' = Append(phases, "DarkEnd")
            /\ stack' = Push("finally")
            /\ pc' = "collect_dark_fields"
       ELSE /\ pc' = "finally"
            /\ UNCHANGED <<phases, stack>>
    /\ UNCHANGED <<pv, ts, k, trig, nframes, errs, endCalls, exposures,
                   lastRot, lastExp, projLog, trigLog, cancelK, sawFalse, cancelled>>

\* ------------------------------------------------------------ environment
LoopPositions == {"loop_check", "loop_rotate", "loop_acquire", "loop_status"}

\* The operator's abort, from outside the sequencer's thread: clears the
\* cooperative cancellation flag while a run is in progress.
Cancel ==
    /\ UNCHANGED snap
    /\ InTry
    /\ ts.scan_is_running
    /\ ts' = [ts EXCEPT !.scan_is_running = FALSE]
    /\ cancelK' = IF pc \in LoopPositions THEN k ELSE cancelK
    /\ cancelled' = TRUE
    /\ UNCHANGED <<pv, pc, stack, k, trig, nframes, errs, phases, endCalls,
                   exposures, lastRot, lastExp, projLog, trigLog, sawFalse>>

\* ---------------------------------------------------------- specification
Next ==
    \/ begin_scan
    \/ begin_scan_num_capture
    \/ begin_scan_capture
    \/ fly_dark_start
    \/ fly_flat_start
    \/ fly_rotation_start
    \/ fly_projections
    \/ fly_post_scan
    \/ fly_flat_end
    \/ fly_dark_end
    \/ collect_dark_fields
    \/ collect_flat_fields
    \/ static_frames
    \/ static_acquire
    \/ static_wait
    \/ proj_base
    \/ proj_imode
    \/ loop_check
    \/ loop_rotate
    \/ loop_acquire
    \/ loop_status
    \/ proj_final
    \/ trig_stop
    \/ trig_wait_stop
    \/ trig_mode
    \/ trig_wait_mode
    \/ trig_count
    \/ Fault
    \/ Cancel
    \/ Except
    \/ Finally

Spec == Init /\ [][Next]_vars

\* The same object is used for several runs: after a run has ended the
\* operator may set the post-scan switch and start the next run.  What the
\* devices last did (lastRot, lastExp) and the count of end_scan calls carry
\* over; the records of the run start afresh.
MaxRuns == 2

start_scan ==
    /\ pc = "done"
    /\ endCalls < MaxRuns
    /\ \E ps \in {"Yes", "No"} : pv' = [pv EXCEPT !.AcquirePostScan = ps]
    /\ pc' = "begin_scan"
    /\ stack' = <<>>
    /\ exc' = "none" /\ cond' = "none" /\ errlog' = <<>> /\ propagated' = "none"
    /\ phases' = <<>> /\ exposures' = 0
    /\ projLog' = <<>> /\ trigLog' = <<>>
    /\ cancelK' = -1 /\ sawFalse' = FALSE /\ cancelled' = FALSE
    /\ UNCHANGED <<ts, k, trig, nframes, endCalls, lastRot, lastExp, snap>>

RerunInit ==
    /\ \E m \in {"None", "Both"}, rs \in 0..1, pstep \in 1..MaxStep :
          pv = [DarkFieldMode |-> m, FlatFieldMode |-> m,
                NumDarkFields |-> 1, NumFlatFields |-> 1,
                RotationStart |-> rs, RotationStep |-> 1, RotationEnd |-> MaxAngle,
                AcquirePostScan |-> "Yes", PostScanStep |-> pstep,
                Rotation |-> 0, CamAcquire |-> 0, CamTriggerMode |-> "Internal",
                CamNumImages |-> 1, CamImageMode |-> "Single", FrameType |-> "0",
                FPNumCapture |-> 0, FPCapture |-> "Done"]
    /\ ts = InitObject
    /\ pc = "begin_scan" /\ stack = <<>>
    /\ k = 0 /\ trig = [mode |-> "Internal", num |-> 0] /\ nframes = 0
    /\ InitHistory

RerunNext ==
    \/ Next
    \/ start_scan

SpecRerun == RerunInit /\ [][RerunNext]_vars

\* collect_projections called on its own, for angle lists of every length
\* from 0 to MaxLen, with the cancellation flag set or cleared at the call
\* and possibly cleared by the operator during the call.
MaxLen == 2

ProjInit ==
    /\ \E n \in 0..MaxLen, rs \in 0..1, step \in 1..MaxStep, running \in BOOLEAN :
          ts = [InitObject EXCEPT !.scan_is_running = running,
                                  !.rotation_start = rs,
                                  !.rotation_step = step,
                                  !.num_angles = n,
                                  !.theta = Arange(rs, n, step)]
    /\ pv = [DarkFieldMode |-> "None", FlatFieldMode |-> "None",
             NumDarkFields |-> 0, NumFlatFields |-> 0,
             RotationStart |-> 0, RotationStep |-> 1, RotationEnd |-> MaxAngle,
             AcquirePostScan |-> "No", PostScanStep |-> 1,
             Rotation |-> 0, CamAcquire |-> 0, CamTriggerMode |-> "Internal",
             CamNumImages |-> 1, CamImageMode |-> "Multiple", FrameType |-> "0",
             FPNumCapture |-> 0, FPCapture |-> "Done"]
    /\ pc = "proj_base" /\ stack = <<"returned">>
    /\ k = 0 /\ trig = [mode |-> "Internal", num |-> 0] /\ nframes = 0
    /\ InitHistory

ProjNext ==
    \/ proj_base
    \/ proj_imode
    \/ loop_check
    \/ loop_rotate
    \/ loop_acquire
    \/ loop_status
    \/ proj_final
    \/ trig_stop
    \/ trig_wait_stop
    \/ trig_mode
    \/ trig_wait_mode
    \/ trig_count
    \/ Cancel

SpecProj == ProjInit /\ [][ProjNext]_vars

\* set_trigger_mode(mode, num_images) called on its own, for every mode and
\* image count and every state of the camera.
TriggerModes == {"Internal", "External", "FreeRun"}

TrigInit ==
    /\ \E m \in TriggerModes, n \in 0..MaxImages, acq \in {0, 1},
          tm \in {"Internal", "External"}, ni \in 0..MaxImages :
          /\ trig = [mode |-> m, num |-> n]
          /\ pv = [DarkFieldMode |-> "None", FlatFieldMode |-> "None",
                   NumDarkFields |-> 0, NumFlatFields |-> 0,
                   RotationStart |-> 0, RotationStep |-> 1, RotationEnd |-> MaxAngle,
                   AcquirePostScan |-> "No", PostScanStep |-> 1,
                   Rotation |-> 0, CamAcquire |-> acq, CamTriggerMode |-> tm,
                   CamNumImages |-> ni, CamImageMode |-> "Single", FrameType |-> "0",
                   FPNumCapture |-> 0, FPCapture |-> "Done"]
    /\ ts = InitObject
    /\ pc = "trig_stop" /\ stack = <<"returned">>
    /\ k = 0 /\ nframes = 0
    /\ InitHistory

TrigNext ==
    \/ trig_stop
    \/ trig_wait_stop
    \/ trig_mode
    \/ trig_wait_mode
    \/ trig_count

SpecTrig == TrigInit /\ [][TrigNext]_vars

\* set_trigger_mode(mode, num_images) called twice in a row with the same
\* arguments: when the first call returns the PVs are recorded in snap and
\* the call is made again.
set_trigger_mode_again ==
    /\ pc = "call_again"
    /\ snap' = pv
    /\ CallTrigger(trig.mode, trig.num, "returned")
    /\ UNCHANGED <<pv, ts, k, nframes, errs, phases, endCalls, exposures,
                   lastRot, lastExp, projLog, cancelK, sawFalse, cancelled>>

TwiceInit ==
    /\ \E m \in TriggerModes, n \in 0..MaxImages, acq \in {0, 1},
          tm \in {"Internal", "External"}, ni \in 0..MaxImages :
          /\ trig = [mode |-> m, num |-> n]
          /\ pv = [DarkFieldMode |-> "None", FlatFieldMode |-> "None",
                   NumDarkFields |-> 0, NumFlatFields |-> 0,
                   RotationStart |-> 0, RotationStep |-> 1, RotationEnd |-> MaxAngle,
                   AcquirePostScan |-> "No", PostScanStep |-> 1,
                   Rotation |-> 0, CamAcquire |-> acq, CamTriggerMode |-> tm,
                   CamNumImages |-> ni, CamImageMode |-> "Single", FrameType |-> "0",
                   FPNumCapture |-> 0, FPCapture |-> "Done"]
    /\ ts = InitObject
    /\ pc = "trig_stop" /\ stack = <<"call_again">>
    /\ k = 0 /\ nframes = 0
    /\ InitHistory

TwiceNext ==
    \/ TrigNext
    \/ set_trigger_mode_again

SpecTwice == TwiceInit /\ [][TwiceNext]_vars

\* begin_scan called on its own, over a wider range of configurations.
PlanStarts == {0, 1, 5}
PlanEnds == {0, 1, 2, 3, 499}
PlanFields == {0, 1, 2, 10}

PlanInit ==
    /\ \E dm \in Modes, fm \in Modes, nd \in PlanFields, nf \in PlanFields,
          ps \in {"Yes", "No"}, rs \in PlanStarts, re \in PlanEnds,
          step \in 1..MaxStep, pstep \in 0..MaxStep :
          pv = [DarkFieldMode |-> dm, FlatFieldMode |-> fm,
                NumDarkFields |-> nd, NumFlatFields |-> nf,
                RotationStart |-> rs, RotationStep |-> step, RotationEnd |-> re,
                AcquirePostScan |-> ps, PostScanStep |-> pstep,
                Rotation |-> 0, CamAcquire |-> 0, CamTriggerMode |-> "Internal",
                CamNumImages |-> 1, CamImageMode |-> "Single", FrameType |-> "0",
                FPNumCapture |-> 0, FPCapture |-> "Done"]
    /\ ts = InitObject
    /\ pc = "begin_scan" /\ stack = <<>>
    /\ k = 0 /\ trig = [mode |-> "Internal", num |-> 0] /\ nframes = 0
    /\ InitHistory

PlanNext ==
    \/ begin_scan
    \/ begin_scan_num_capture
    \/ begin_scan_capture

SpecPlan == PlanInit /\ [][PlanNext]_vars

\* ----------------------------------------------- double-precision angles
\* The angles are Python floats (IEEE 754 binary64).  For whole-number
\* settings the arithmetic of begin_scan is exact and NumSteps and Arange
\* give its results; for fractional settings every operation rounds, and the
\* plan is computed below as the code computes it.
\*
\* The number of significand bits of a binary64 value.
Precision == 53

\* Natural numbers of any size: sequences of digits in base Base, least
\* significant first, the most significant digit not 0; <<>> is 0.
Base == 32768

RECURSIVE BNorm(_)
BNorm(a) == IF a = <<>> THEN <<>>
            ELSE IF a[Len(a)] = 0 THEN BNorm(SubSeq(a, 1, Len(a) - 1))
            ELSE a

RECURSIVE BFromInt(_)
BFromInt(n) == IF n = 0 THEN <<>> ELSE <<n % Base>> \o BFromInt(n \div Base)

RECURSIVE BToInt(_)
BToInt(a) == IF a = <<>> THEN 0 ELSE a[1] + Base * BToInt(Tail(a))

\* a + b + c for a carry c
RECURSIVE BAddC(_, _, _)
BAddC(a, b, c) ==
    IF a = <<>> /\ b = <<>>
    THEN IF c = 0 THEN <<>> ELSE <<c>>
    ELSE LET x == IF a = <<>> THEN 0 ELSE a[1]
             y == IF b = <<>> THEN 0 ELSE b[1]
             s == x + y + c
         IN <<s % Base>> \o BAddC(IF a = <<>> THEN <<>> ELSE Tail(a),
                                   IF b = <<>> THEN <<>> ELSE Tail(b),
                                   s \div Base)

BAdd(a, b) == BAddC(a, b, 0)

\* a - b - br for a >= b + br, before normalisation.
RECURSIVE BSubB(_, _, _)
BSubB(a, b, br) ==
    IF a = <<>>
    THEN <<>>
    ELSE LET y == IF b = <<>> THEN 0 ELSE b[1]
             d == a[1] - y - br
         IN <<(d + Base) % Base>> \o BSubB(Tail(a),
                                            IF b = <<>> THEN <<>> ELSE Tail(b),
                                            IF d < 0 THEN 1 ELSE 0)

BSub(a, b) == BNorm(BSubB(a, b, 0))

BLess(a, b) ==
    IF Len(a) # Len(b)
    THEN Len(a) < Len(b)
    ELSE \E i \in 1..Len(a) :
            /\ a[i] < b[i]
            /\ \A j \in (i + 1)..Len(a) : a[j] = b[j]

\* a * d + c for a digit d and a carry c
RECURSIVE BMulSmall(_, _, _)
BMulSmall(a, d, c) ==
    IF a = <<>>
    THEN IF c = 0 THEN <<>> ELSE <<c>>
    ELSE LET p == a[1] * d + c
         IN <<p % Base>> \o BMulSmall(Tail(a), d, p \div Base)

RECURSIVE BMul(_, _)
BMul(a, b) ==
    IF a = <<>> \/ b = <<>>
    THEN <<>>
    ELSE LET rest == BMul(a, Tail(b))
         IN BAdd(BNorm(BMulSmall(a, b[1], 0)),
                 IF rest = <<>> THEN <<>> ELSE <<0>> \o rest)

\* The number of bits of a, and bit i of a (bit 1 is the least significant).
BitLen(a) ==
    IF a = <<>> THEN 0
    ELSE 15 * (Len(a) - 1)
         + (CHOOSE l \in 1..15 : 2^(l - 1) <= a[Len(a)] /\ a[Len(a)] < 2^l)

Bit(a, i) ==
    IF (i - 1) \div 15 + 1 > Len(a) THEN 0
    ELSE (a[(i - 1) \div 15 + 1] \div 2^((i - 1) % 15)) % 2

\* a * 2^n and a div 2^n
BShl(a, n) ==
    IF a = <<>> THEN <<>>
    ELSE [i \in 1..(n \div 15) |-> 0] \o BMulSmall(a, 2^(n % 15), 0)

BShr(a, n) ==
    IF n \div 15 >= Len(a)
    THEN <<>>
    ELSE LET t == SubSeq(a, n \div 15 + 1, Len(a))
             s == n % 15
         IN BNorm([i \in 1..Len(t) |->
                     (t[i] \div 2^s)
                     + (IF i < Len(t) THEN (t[i + 1] % 2^s) * 2^(15 - s) ELSE 0)])

\* One step of long division: st = <<q, r>> are the quotient and the
\* remainder of the bits of a above bit i, which is brought down.
DivBit(a, b, i, st) ==
    LET r1 == BAddC(st[2], st[2], Bit(a, i))
    IN IF BLess(r1, b)
       THEN <<BAddC(st[1], st[1], 0), r1>>
       ELSE <<BAddC(st[1], st[1], 1), BSub(r1, b)>>

\* The steps for the bits hi down to lo: those for the upper half of the
\* bits, then those for the lower half (the test on upper only makes the
\* upper half be evaluated before the lower half is entered).
RECURSIVE DivBits(_, _, _, _, _)
DivBits(a, b, hi, lo, st) ==
    IF hi = lo
    THEN DivBit(a, b, hi, st)
    ELSE LET mid == (hi + lo + 1) \div 2
             upper == DivBits(a, b, hi, mid, st)
         IN IF Len(upper) = 2 THEN DivBits(a, b, mid - 1, lo, upper) ELSE upper

\* <<a div b, a mod b>> for b # 0
BDivMod(a, b) ==
    IF a = <<>> THEN <<<<>>, <<>>>>
    ELSE DivBits(a, b, BitLen(a), 1, <<<<>>, <<>>>>)

\* A non-negative double: the value m * 2^e, m of exactly Precision bits, or
\* 0.  (Subnormal numbers, infinities and NaN do not arise for the angles
\* considered.)
FZero == [m |-> <<>>, e |-> 0]

\* The double nearest to (m + f) * 2^e, where 0 <= f < 1 and f # 0 iff
\* sticky; ties go to the even significand.
Round(m, e, sticky) ==
    IF m = <<>>
    THEN FZero
    ELSE IF BitLen(m) <= Precision
    THEN [m |-> BShl(m, Precision - BitLen(m)), e |-> e - (Precision - BitLen(m))]
    ELSE LET d == BitLen(m) - Precision
             kept == BShr(m, d)
             rest == sticky \/ BShl(BShr(m, d - 1), d - 1) # m
             up == Bit(m, d) = 1 /\ (rest \/ Bit(kept, 1) = 1)
             r == IF up THEN BAdd(kept, <<1>>) ELSE kept
         IN IF BitLen(r) > Precision
            THEN [m |-> BShr(r, 1), e |-> e + d + 1]
            ELSE [m |-> r, e |-> e + d]

\* float(n) for an integer n >= 0
FromInt(n) == Round(BFromInt(n), 0, FALSE)

Min(i, j) == IF i < j THEN i ELSE j

\* x + y
FAdd(x, y) ==
    IF x.m = <<>> THEN y
    ELSE IF y.m = <<>> THEN x
    ELSE LET e == Min(x.e, y.e)
         IN Round(BAdd(BShl(x.m, x.e - e), BShl(y.m, y.e - e)), e, FALSE)

\* x < y
FLess(x, y) ==
    IF y.m = <<>> THEN FALSE
    ELSE IF x.m = <<>> THEN TRUE
    ELSE x.e < y.e \/ (x.e = y.e /\ BLess(x.m, y.m))

\* x - y for x >= y
FSub(x, y) ==
    IF y.m = <<>> THEN x
    ELSE LET e == Min(x.e, y.e)
         IN Round(BSub(BShl(x.m, x.e - e), BShl(y.m, y.e - e)), e, FALSE)

\* x * y
FMul(x, y) == Round(BMul(x.m, y.m), x.e + y.e, FALSE)

\* x / y for y # 0
FDiv(x, y) ==
    IF x.m = <<>>
    THEN FZero
    ELSE LET qr == BDivMod(BShl(x.m, Precision + 2), y.m)
         IN Round(qr[1], x.e - y.e - (Precision + 2), qr[2] # <<>>)

\* int(x): the integer part of x
FTrunc(x) ==
    IF x.m = <<>> THEN 0
    ELSE IF x.e >= 0 THEN BToInt(BShl(x.m, x.e))
    ELSE BToInt(BShr(x.m, -x.e))

\* The double that the decimal setting h/100 is read as.
Hundredths(h) == FDiv(FromInt(h), FromInt(100))

\* Lines 69 and 72 over doubles: int(((stop - start) / step) + 1).
FNumSteps(start, stop, step) ==
    FTrunc(FAdd(FDiv(FSub(stop, start), step), FromInt(1)))

\* Line 73 over doubles: start + np.arange(n) * step.
FArange(start, n, step) ==
    [i \in 1..n |-> FAdd(start, FMul(FromInt(i - 1), step))]

\* Lines 68-85 over doubles.
FScanPlan(t) ==
    LET t1 == [t EXCEPT !.rotation_stop = pv.RotationEnd]
        t2 == [t1 EXCEPT !.num_angles =
                   FNumSteps(t1.rotation_start, t1.rotation_stop, t1.rotation_step),
                         !.post_scan_mode = pv.AcquirePostScan,
                         !.post_scan_step = pv.PostScanStep]
        t3 == [t2 EXCEPT !.num_post_scan =
                   FNumSteps(t2.rotation_start, t2.rotation_stop, t2.post_scan_step)]
        t4 == [t3 EXCEPT !.theta =
                   FArange(t3.rotation_start, t3.num_angles, t3.rotation_step)]
    IN [t4 EXCEPT !.total_images = TotalImages(t4)]

\* begin_scan called on its own for fractional angle settings, entered in
\* hundredths of a degree: the stops go up to MaxHundredths, and the setting
\* (0, 180, 0.25) is included.
MaxHundredths == 60
AngleStarts == {0, 25}
AngleSteps == {1, 25}
AngleStops == 0..MaxHundredths \cup {18000}
AnglePostSteps == {0, 25}

\* Lines 67-86 of begin_scan over doubles; lines 87 and 88 follow as
\* begin_scan_num_capture and begin_scan_capture.
begin_scan_angles ==
    /\ UNCHANGED snap
    /\ pc = "begin_scan"
    /\ LET t0 == TomoScan_begin_scan(ts)
       IN IF t0.rotation_step = FZero
          THEN \* line 69 divides by rotation_step
               /\ ts' = [t0 EXCEPT !.rotation_stop = pv.RotationEnd]
               /\ Raise("ZeroDivisionError")
          ELSE IF pv.PostScanStep = FZero
          THEN \* line 72 divides by post_scan_step
               /\ ts' = [t0 EXCEPT !.rotation_stop = pv.RotationEnd,
                                   !.num_angles = FNumSteps(t0.rotation_start,
                                                   pv.RotationEnd, t0.rotation_step),
                                   !.post_scan_mode = pv.AcquirePostScan,
                                   !.post_scan_step = pv.PostScanStep]
               /\ Raise("ZeroDivisionError")
          ELSE /\ ts' = FScanPlan(t0)
               /\ pc' = "fp_num_capture"
               /\ UNCHANGED <<stack, errs>>
    /\ UNCHANGED <<pv, k, trig, nframes, hist>>

AnglesInit ==
    /\ \E s \in AngleStarts, e \in AngleStops, st \in AngleSteps,
          ps \in {"Yes", "No"}, pst \in AnglePostSteps :
          /\ s <= e
          /\ e > MaxHundredths => (s = 0 /\ st = 25)
          /\ pv = [DarkFieldMode |-> "None", FlatFieldMode |-> "None",
                   NumDarkFields |-> 0, NumFlatFields |-> 0,
                   RotationStart |-> Hundredths(s),
                   RotationStep |-> Hundredths(st),
                   RotationEnd |-> Hundredths(e),
                   AcquirePostScan |-> ps, PostScanStep |-> Hundredths(pst),
                   Rotation |-> 0, CamAcquire |-> 0, CamTriggerMode |-> "Internal",
                   CamNumImages |-> 1, CamImageMode |-> "Single", FrameType |-> "0",
                   FPNumCapture |-> 0, FPCapture |-> "Done"]
    /\ ts = InitObject
    /\ pc = "begin_scan" /\ stack = <<>>
    /\ k = 0 /\ trig = [mode |-> "Internal", num |-> 0] /\ nframes = 0
    /\ InitHistory

AnglesNext ==
    \/ begin_scan_angles
    \/ begin_scan_num_capture
    \/ begin_scan_capture

SpecAngles == AnglesInit /\ [][AnglesNext]_vars

\* ------------------------------------------------------------ properties
PhaseIndex(p) == CHOOSE i \in DOMAIN PhaseOrder : PhaseOrder[i] = p

\* C1: in every run of fly_scan, whatever its exit path, end_scan is invoked
\* exactly once (none before the run has left the try block, one when
\* fly_scan is done), and no phase command follows it.
C1_EndScanExactlyOnce ==
    /\ [](endCalls = IF pc = "done" THEN 1 ELSE 0)
    /\ [][endCalls >= 1 =>
            UNCHANGED <<phases, exposures, lastRot, lastExp, projLog, trigLog>>]_vars

\* An unanticipated error in the middle of a phase, after exposures, with
\* end_scan run once and the error leaving fly_scan.
C1_Witness ==
    /\ pc = "done" /\ endCalls = 1
    /\ cond = "RuntimeError" /\ propagated = "RuntimeError"
    /\ exposures > 0

\* C2: the phase-entry events of a run are a subsequence of DarkStart,
\* FlatStart, Projection, PostScan, FlatEnd, DarkEnd (strictly increasing
\* positions, so none is entered twice and none out of order), and a phase
\* is entered only when the configuration enables it.
C2_PhaseOrder ==
    /\ \A i, j \in DOMAIN phases :
          i < j => PhaseIndex(phases[i]) < PhaseIndex(phases[j])
    /\ \A i \in DOMAIN phases :
          /\ phases[i] = "DarkStart" =>
                pv.DarkFieldMode \in {"Start", "Both"} /\ pv.NumDarkFields > 0
          /\ phases[i] = "FlatStart" =>
                pv.FlatFieldMode \in {"Start", "Both"} /\ pv.NumFlatFields > 0
          /\ phases[i] = "PostScan" => pv.AcquirePostScan = "Yes"
          /\ phases[i] = "FlatEnd" =>
                pv.FlatFieldMode \in {"End", "Both"} /\ pv.NumFlatFields > 0
          /\ phases[i] = "DarkEnd" =>
                pv.DarkFieldMode \in {"End", "Both"} /\ pv.NumDarkFields > 0

\* A run that entered all six phases.
C2_Witness == pc = "done" /\ phases = PhaseOrder

\* After a recoverable condition no step enters a phase, exposes, or
\* commands a rotation, but for the rotation end_scan may command.
NoPhaseCommandAfterCondition ==
    cond \in Recoverable =>
        /\ UNCHANGED <<phases, exposures, lastExp, projLog, trigLog>>
        /\ (lastRot' # lastRot) => (pc = "finally")

\* C3: once one of the three recoverable conditions has been raised in the
\* try block, control is in the except clause, in end_scan or out of
\* fly_scan; no phase is entered, no exposure is made and no rotation is
\* commanded other than by end_scan.
C3_JumpToCleanup ==
    /\ [](cond \in Recoverable => pc \in Cleanup)
    /\ [][NoPhaseCommandAfterCondition]_vars

\* A camera timeout in the leading dark fields of a run whose flat fields
\* were enabled: the run ended with DarkStart the only phase entered.
C3_Witness ==
    /\ pc = "done" /\ endCalls = 1
    /\ cond = "CameraTimeoutError"
    /\ phases = <<"DarkStart">>
    /\ pv.FlatFieldMode = "Both" /\ pv.NumFlatFields > 0

\* C4: each of the three recoverable conditions is absorbed by fly_scan: it
\* is logged as an error, end_scan runs, and fly_scan returns with no
\* exception leaving it.
C4_RecoverableAbsorbed ==
    (pc = "done" /\ cond \in Recoverable) =>
        /\ propagated = "none"
        /\ Len(errlog) = 1
        /\ endCalls = 1

\* C5: when scan_is_running becomes false while the loop of
\* collect_projections is at index k, that loop issues no rotation and no
\* exposure for an index above k, and end_scan has run when fly_scan is done.
C5_CancelStopsLoop ==
    /\ cancelK >= 0 =>
          \A i \in DOMAIN projLog :
              projLog[i][1] \in {"rot", "exp"} => projLog[i][2] <= cancelK
    /\ (cancelK >= 0 /\ pc = "done") => endCalls = 1

\* A run cancelled at index 0 of a loop over at least two angles, which
\* exposed index 0, skipped the rest and ended through end_scan.
C5_Witness ==
    /\ pc = "done" /\ endCalls = 1
    /\ cancelK = 0 /\ ts.num_angles >= 2
    /\ exposures = 1 /\ sawFalse

\* C6: once a loop check has found scan_is_running false, the rest of the
\* phase sequence (the rest of the loop, the post-scan and the trailing
\* flat and dark fields) commands no rotation and makes no exposure.
C6_NoCommandsAfterCancel ==
    [][(sawFalse /\ InTry) => (exposures' = exposures /\ lastRot' = lastRot)]_vars

TrigOrder == <<"stop", "stop_confirmed", "mode", "mode_confirmed", "count">>

\* C7: the commands of a set_trigger_mode call are, in this order: stop the
\* acquisition, stop confirmed, set the trigger mode, mode confirmed, set
\* the image count; the count never comes before both confirmations.
C7_TriggerOrdering ==
    /\ Len(trigLog) <= Len(TrigOrder)
    /\ trigLog = SubSeq(TrigOrder, 1, Len(trigLog))

\* A 'FreeRun' call on an acquiring camera that has returned.
C7_Witness ==
    /\ pc = "returned"
    /\ trig.mode = "FreeRun"
    /\ trigLog = TrigOrder
    /\ pv.CamNumImages = trig.num

\* C8: in a run that completes without cancellation or error, the
\* total_images written to the file-capture count by begin_scan equals the
\* number of frames exposed in all the phases of the run.
C8_TotalMatchesExposures ==
    (pc = "done" /\ cond = "none" /\ ~cancelled) =>
        /\ pv.FPNumCapture = exposures
        /\ ts.total_images = exposures

\* A complete run through all six phases.
C8_Witness ==
    /\ pc = "done" /\ cond = "none" /\ ~cancelled
    /\ phases = PhaseOrder
    /\ exposures >= 5

\* 0 for 'None', 1 for 'Start' and 'End', 2 for 'Both'.
Multiplier(m) == CASE m = "None" -> 0
                   [] m \in {"Start", "End"} -> 1
                   [] m = "Both" -> 2

\* C9: begin_scan computes total_images = num_angles + d * num_dark_fields
\* + f * num_flat_fields + (num_post_scan if post-scan is enabled), with d
\* and f the multipliers of the dark and flat field modes.
C9_TotalImagesFormula ==
    pc = "dark_start" =>
        ts.total_images =
            ts.num_angles
            + Multiplier(pv.DarkFieldMode) * pv.NumDarkFields
            + Multiplier(pv.FlatFieldMode) * pv.NumFlatFields
            + (IF pv.AcquirePostScan = "Yes" THEN ts.num_post_scan ELSE 0)

\* Dark 'Both', flat 'None', 10 dark fields, 500 angles, no post-scan: 520.
C9_Witness ==
    /\ pc = "dark_start"
    /\ pv.DarkFieldMode = "Both" /\ pv.FlatFieldMode = "None"
    /\ pv.NumDarkFields = 10 /\ ts.num_angles = 500
    /\ pv.AcquirePostScan = "No"
    /\ ts.total_images = 520

\* C10: every exposure of a trailing phase (FlatEnd, DarkEnd) is made with
\* the rotation stage at angle 0, the last rotation command being the move
\* to 0 that follows the projection and post-scan phases (stated for the
\* runs without abort or error).
C10_TrailingAtZero ==
    (lastExp.phase \in {"FlatEnd", "DarkEnd"} /\ ~cancelled /\ cond = "none") =>
        (lastExp.site = "flat_end" /\ lastExp.rot = 0)

\* C11: in a run that follows a run whose post-scan phase replaced the
\* step, the angle count and the angle list of the object, begin_scan has
\* computed them anew from the configuration: until the post-scan phase of
\* the new run, rotation_step, num_angles and theta are those of the
\* RotationStart, RotationEnd and RotationStep settings.
C11_PlanRecomputed ==
    (endCalls >= 1 /\ pc \notin ({"begin_scan"} \cup Cleanup)
                   /\ \A i \in DOMAIN phases : phases[i] # "PostScan") =>
        /\ ts.rotation_step = pv.RotationStep
        /\ ts.num_angles =
               NumSteps(pv.RotationStart, pv.RotationEnd, pv.RotationStep)
        /\ ts.theta = Arange(pv.RotationStart, ts.num_angles, pv.RotationStep)

\* The projection phase of a second run, the last exposure so far being a
\* post-scan exposure of the first run made with step 2.
C11_Witness ==
    /\ endCalls = 1
    /\ lastExp.phase = "PostScan"
    /\ pv.PostScanStep = 2
    /\ CurrentPhase = "Projection" /\ pc = "loop_acquire"
    /\ ts.rotation_step = 1

\* begin_scan has failed: an exception was raised before line 88 put the
\* file plugin into capture.
BeginScanFailed == cond # "none" /\ pv.FPCapture = "Done"

\* C12 as stated: if begin_scan fails, no rotation command and no exposure
\* command is issued during that run.
C12_NoMotionAfterFailedBegin ==
    BeginScanFailed =>
        (lastRot.site = "none" /\ exposures = 0)

\* C12: if begin_scan fails, no phase is entered and no exposure command is
\* issued during that run, and the only rotation command that may be issued
\* is the optional return of the stage to rotation_start made by end_scan.
C12_OnlyCleanupMotion ==
    BeginScanFailed =>
        /\ pc \in Cleanup
        /\ phases = <<>>
        /\ exposures = 0 /\ lastExp = NoExp
        /\ \/ lastRot.site = "none"
           \/ /\ lastRot.site = "end_scan"
              /\ pc = "done"
              /\ lastRot.val = ts.rotation_start

\* A run whose begin_scan failed and whose end_scan returned the stage to
\* rotation_start.
C12_Witness ==
    /\ pc = "done"
    /\ BeginScanFailed
    /\ lastRot.site = "end_scan"
    /\ exposures = 0

\* C13: every confirmation wait of set_trigger_mode is bounded: a call that
\* has neither returned nor surfaced a camera timeout can take a further
\* step, for every trigger mode and every state of the camera.
C13_WaitsBounded ==
    \/ pc = "returned"
    \/ cond = "CameraTimeoutError"
    \/ ENABLED TrigNext

\* C14: for every start, stop >= start and step > 0, begin_scan yields
\* num_angles = floor((stop - start) / step) + 1, theta[k] = start + k * step
\* for every k, and theta[num_angles-1] <= stop < theta[num_angles-1] + step
\* (theta is indexed from 1 here).
C14_AnglePlan ==
    pc = "dark_start" =>
        LET n == ts.num_angles
            start == pv.RotationStart
            stop == pv.RotationEnd
            step == pv.RotationStep
        IN /\ n = FTrunc(FDiv(FSub(stop, start), step)) + 1
           /\ Len(ts.theta) = n
           /\ \A i \in 1..n : ts.theta[i] = FAdd(start, FMul(FromInt(i - 1), step))
           /\ ~FLess(stop, ts.theta[n])
           /\ FLess(stop, FAdd(ts.theta[n], step))

\* The plan of the setting (0, 180, 0.25): 721 angles from 0 to 180.
AnglesExample ==
    (pc = "dark_start" /\ pv.RotationEnd = FromInt(180)) =>
        /\ ts.num_angles = 721
        /\ ts.theta[1] = FZero
        /\ ts.theta[721] = FromInt(180)

\* The phases of a run that are entered according to the field modes alone.
ModePhases ==
    {"Projection"}
    \cup (IF pv.DarkFieldMode \in {"Start", "Both"} THEN {"DarkStart"} ELSE {})
    \cup (IF pv.FlatFieldMode \in {"Start", "Both"} THEN {"FlatStart"} ELSE {})
    \cup (IF pv.AcquirePostScan = "Yes" THEN {"PostScan"} ELSE {})
    \cup (IF pv.FlatFieldMode \in {"End", "Both"} THEN {"FlatEnd"} ELSE {})
    \cup (IF pv.DarkFieldMode \in {"End", "Both"} THEN {"DarkEnd"} ELSE {})

\* The phases that are entered according to the field modes and the field
\* counts: a dark or flat phase with a count of 0 is left out.
ModeAndCountPhases ==
    {"Projection"}
    \cup (IF pv.DarkFieldMode \in {"Start", "Both"} /\ pv.NumDarkFields > 0
          THEN {"DarkStart"} ELSE {})
    \cup (IF pv.FlatFieldMode \in {"Start", "Both"} /\ pv.NumFlatFields > 0
          THEN {"FlatStart"} ELSE {})
    \cup (IF pv.AcquirePostScan = "Yes" THEN {"PostScan"} ELSE {})
    \cup (IF pv.FlatFieldMode \in {"End", "Both"} /\ pv.NumFlatFields > 0
          THEN {"FlatEnd"} ELSE {})
    \cup (IF pv.DarkFieldMode \in {"End", "Both"} /\ pv.NumDarkFields > 0
          THEN {"DarkEnd"} ELSE {})

\* The number of times phase p was entered in this run.
Entered(p) == Cardinality({i \in DOMAIN phases : phases[i] = p})

\* C15 as stated: in a run without error or cancellation the projection
\* phase is entered exactly once and each bracketing phase is entered iff
\* its mode (or the post-scan switch) enables it.
C15_PhasesByMode ==
    (pc = "done" /\ cond = "none" /\ ~cancelled) =>
        /\ Entered("Projection") = 1
        /\ {phases[i] : i \in DOMAIN phases} = ModePhases

\* C15: in a run without error or cancellation the projection phase is
\* entered exactly once; a dark or flat phase is entered, once, iff its mode
\* enables it and its field count is positive; the post-scan phase is
\* entered, once, iff post-scan is enabled.
C15_PhasesByModeAndCount ==
    (pc = "done" /\ cond = "none" /\ ~cancelled) =>
        /\ \A p \in ModeAndCountPhases : Entered(p) = 1
        /\ {phases[i] : i \in DOMAIN phases} = ModeAndCountPhases

\* A complete run with dark mode 'Both' and no dark fields, flat mode 'End'
\* and one flat field: the dark phases are left out.
C15_Witness ==
    /\ pc = "done" /\ cond = "none" /\ ~cancelled
    /\ pv.DarkFieldMode = "Both" /\ pv.NumDarkFields = 0
    /\ pv.FlatFieldMode = "End" /\ pv.NumFlatFields = 1
    /\ pv.AcquirePostScan = "Yes"
    /\ phases = <<"Projection", "PostScan", "FlatEnd">>

\* The commands of a complete collect_projections call over n angles:
\* rotation, exposure and status update for each index in turn, then the
\* trailing status update.
ExpectedLog(n) ==
    [i \in 1..(3 * n + 1) |->
        IF i = 3 * n + 1
        THEN <<"final", n>>
        ELSE <<CASE (i - 1) % 3 = 0 -> "rot"
                 [] (i - 1) % 3 = 1 -> "exp"
                 [] (i - 1) % 3 = 2 -> "status",
               (i - 1) \div 3>>]

\* The number of entries of kind c in the log of the current call.
Issued(c) == Cardinality({i \in DOMAIN projLog : projLog[i][1] = c})

\* C16: while the cancellation flag is true, collect_projections issues, for
\* each index k in increasing order and once only, the rotation to theta[k],
\* then the exposure, then a status update, before the rotation for k+1;
\* each exposure is made with the stage at theta[k]; a call that returns
\* with the flag still true has issued exactly n exposures.
C16_OneExposurePerAngle ==
    /\ ts.scan_is_running =>
          /\ Len(projLog) <= 3 * ts.num_angles + 1
          /\ projLog = SubSeq(ExpectedLog(ts.num_angles), 1, Len(projLog))
    /\ (ts.scan_is_running /\ pc = "returned") =>
          /\ projLog = ExpectedLog(ts.num_angles)
          /\ Issued("exp") = ts.num_angles
          /\ exposures = ts.num_angles
    /\ pc = "loop_acquire" =>
          /\ pv.Rotation = ts.theta[k + 1]
          /\ lastRot = [val |-> ts.theta[k + 1], site |-> "loop"]

\* A call over two angles that has returned with the flag true.
C16_Witness ==
    /\ pc = "returned" /\ ts.scan_is_running
    /\ ts.num_angles = 2
    /\ projLog = ExpectedLog(2)
    /\ exposures = 2

\* C17: a collect_projections call that returns has issued one status
\* update per exposure and one more, the last command of the call; over an
\* empty angle list it issues no rotation, no exposure and that one status
\* update.
C17_StatusUpdates ==
    pc = "returned" =>
        /\ Issued("status") + Issued("final") = Issued("exp") + 1
        /\ exposures = Issued("exp")
        /\ projLog # <<>> /\ projLog[Len(projLog)][1] = "final"
        /\ Issued("final") = 1
        /\ ts.num_angles = 0 =>
              /\ projLog = <<<<"final", 0>>>>
              /\ lastRot.site = "none"
              /\ exposures = 0

\* A returned call over the empty angle list.
C17_Witness ==
    /\ pc = "returned"
    /\ ts.num_angles = 0 /\ ts.theta = <<>>
    /\ projLog = <<<<"final", 0>>>>

\* The frame type of the frames of a phase.
TagOf(p) == CASE p = "Projection" -> "0"
              [] p \in {"DarkStart", "DarkEnd"} -> "1"
              [] p \in {"FlatStart", "FlatEnd"} -> "2"
              [] p = "PostScan" -> "3"

\* C18: every exposure of a run is made with the FrameType PV holding the
\* tag of the phase that makes it (0 projection, 1 dark, 2 flat, 3
\* post-scan), and every dark or flat exposure with the camera in image
\* mode Multiple.
C18_FrameTypeOfPhase ==
    lastExp # NoExp =>
        /\ lastExp.phase \in {PhaseOrder[i] : i \in DOMAIN PhaseOrder}
        /\ lastExp.tag = TagOf(lastExp.phase)
        /\ lastExp.phase \in {"DarkStart", "DarkEnd", "FlatStart", "FlatEnd"} =>
               lastExp.imode = "Multiple"

\* A trailing dark exposure made after projection, post-scan and trailing
\* flat exposures.
C18_Witness ==
    /\ phases = PhaseOrder
    /\ lastExp.phase = "DarkEnd"
    /\ lastExp.tag = "1" /\ lastExp.imode = "Multiple"
    /\ exposures >= 6

\* C19: when set_trigger_mode(mode, num_images) returns, the camera is not
\* acquiring, its image count is num_images and its trigger mode is
\* 'Internal' for mode 'FreeRun' and mode itself otherwise; when a second
\* call with the same arguments returns, every PV is as the first call left
\* it.
C19_TriggerPostcondition ==
    /\ pc \in {"call_again", "returned"} =>
          /\ pv.CamAcquire = 0
          /\ pv.CamNumImages = trig.num
          /\ pv.CamTriggerMode = TriggerModeFor(trig.mode)
          /\ pv.CamTriggerMode = IF trig.mode = "FreeRun" THEN "Internal" ELSE trig.mode
    /\ pc = "returned" => pv = snap

\* The second of two 'FreeRun' calls for 2 images has returned.
C19_Witness ==
    /\ pc = "returned"
    /\ trig = [mode |-> "FreeRun", num |-> 2]
    /\ snap = pv
    /\ pv.CamTriggerMode = "Internal" /\ pv.CamNumImages = 2 /\ pv.CamAcquire = 0
    /\ trigLog = TrigOrder

\* C20: with post-scan disabled, the post-scan step has no effect:
\* begin_scan succeeds for every post-scan step, 0 included, and leaves the
\* same plan, whose total_images has no post-scan part.
C20_PostScanStepIgnored ==
    (pv.AcquirePostScan = "No" /\ pc # "begin_scan") =>
        /\ cond = "none"
        /\ pc \in {"fp_num_capture", "fp_capture", "dark_start"}
        /\ ts.total_images =
               ts.num_angles
               + Multiplier(pv.DarkFieldMode) * pv.NumDarkFields
               + Multiplier(pv.FlatFieldMode) * pv.NumFlatFields

====
